---- MODULE Spec2Model ----
(***************************************************************************)
(* The rendezvous registration behaviour of the ASB                        *)
(* (swap/src/asb/rendezvous.rs) as a state machine, and the wire codec of  *)
(* the swap setup protocol (swap/src/network/swap_setup.rs) over one       *)
(* substream.                                                              *)
(*                                                                         *)
(* Time is counted in half seconds, the resolution at which                *)
(* Duration::from_secs(ttl) / 2 is exact for every whole number of         *)
(* seconds.  Option<T> is a sequence of length 0 (None) or 1 (Some).       *)
(* A Multiaddr is the sequence of its bytes, a component's protocol code   *)
(* and its payload each standing for the bytes that encode them.           *)
(***************************************************************************)
EXTENDS Integers, Sequences, FiniteSets, TLC

\* ------------------------------------------------------------- bounds
MaxTime == 4
MaxTtl == 3
MaxEvents == 2

\* ------------------------------------------------------------ domains
PeerIds == {"peerA", "peerB"}
Namespaces == {"xmr-btc-swap-mainnet", "xmr-btc-swap-testnet"}
\* the bytes of a /p2p/<peer> component: its protocol code, then the multihash
P2p(peer) == <<"p2p", peer>>
BaseAddr == <<"ip4", "10.0.0.1", "tcp", "8888">>
\* an address without the suffix, one with the suffix of peerA, and one whose
\* last component, an /onion3 address, has the bytes of that suffix as payload
Addrs == {BaseAddr, BaseAddr \o P2p("peerA"), BaseAddr \o <<"onion3">> \o P2p("peerA")}
ConnectionState == {"Dialed", "Connected", "Disconnected"}

None == <<>>
Some(x) == <<x>>

VARIABLES
    rendezvous_point_peer_id,
    rendezvous_point_addr,
    rendezvous_namespace,
    rendezvous_reregister_timestamp,
    rendezvous_node_connection,
    is_initial_registration,
    events,
    now,            \* Instant::now()
    sent,           \* what the last call handed to rendezvous_behaviour.register
    polled,         \* what the last poll() returned
    lastOp,         \* the last call and its arguments
    lastAck,        \* the last Registered event: Some([at, ttl]) or None
    everDisconnected,   \* inject_disconnected ran for the rendezvous peer
    initialRegs,    \* initial registrations sent in this Connected period
    refreshRun,     \* refresh() calls in a row, nothing in between (2: two or more)
    initialRegsEver, \* initial registrations sent since new() (2: two or more)
    message,        \* the message write_cbor_message was called with, if it was
    substream,      \* the frames written to the substream and not yet read
    frame,          \* the frame the last read_cbor_message took
    expecting,      \* the type T of the last read_cbor_message::<T>
    deserialized,   \* the last read_cbor_message reached T::deserialize
    received        \* what the last read_cbor_message returned

config == <<rendezvous_point_peer_id, rendezvous_point_addr, rendezvous_namespace>>
fields == <<rendezvous_reregister_timestamp, rendezvous_node_connection,
            is_initial_registration, events>>
history == <<lastAck, everDisconnected, initialRegs>>
rendezvous == <<config, fields, now, sent, polled, lastOp, history, refreshRun,
                initialRegsEver>>
codec == <<message, substream, frame, expecting, deserialized, received>>
vars == <<rendezvous, codec>>

Op(name, peer, ns, ttl) == [op |-> name, peer |-> peer, ns |-> ns, ttl |-> ttl]
Call(name) == Op(name, "-", "-", 0)

\* ------------------------------------------------------ pure helpers
\* Duration::from_secs, in half seconds
from_secs(secs) == 2 * secs

\* Instant::now() + Duration::from_secs(ttl) / 2
ReregisterAtFullTtl(t, ttl) == t + from_secs(ttl)
ReregisterAt(t, ttl) == t + (from_secs(ttl) \div 2)

\* Multiaddr::ends_with compares the trailing bytes
EndsWith(addr, suffix) ==
    /\ Len(addr) >= Len(suffix)
    /\ SubSeq(addr, Len(addr) - Len(suffix) + 1, Len(addr)) = suffix

\* Multiaddr::with appends the bytes of the component
With(addr, component) == addr \o component

\* the address refresh() dials
AddressAlwaysAppends(addr, peer) == With(addr, P2p(peer))
AddressWithP2p(addr, peer) ==
    IF ~EndsWith(addr, With(<<>>, P2p(peer))) THEN With(addr, P2p(peer)) ELSE addr

DialAddress(address) == [action |-> "DialAddress", address |-> address]

\* the re-registration test of refresh()
ReregisterDueNotStrict(timestamp, t, initial) == t >= timestamp /\ ~initial
ReregisterDueReversed(timestamp, t, initial) == timestamp > t /\ ~initial
ReregisterDue(timestamp, t, initial) == t > timestamp /\ ~initial

\* no message is under way on the substream
Idle ==
    /\ message = None
    /\ substream = <<>>
    /\ frame = None
    /\ expecting = None
    /\ deserialized = FALSE
    /\ received = None

\* ---------------------------------------------------------------- Init
Init ==
    /\ rendezvous_point_peer_id \in PeerIds
    /\ rendezvous_point_addr \in Addrs
    /\ rendezvous_namespace \in Namespaces
    /\ rendezvous_reregister_timestamp = None
    /\ rendezvous_node_connection = "Disconnected"
    /\ is_initial_registration = TRUE
    /\ events = <<>>
    /\ now = 0
    /\ sent = "none"
    /\ polled = None
    /\ lastOp = Call("new")
    /\ lastAck = None
    /\ everDisconnected = FALSE
    /\ initialRegs = 0
    /\ refreshRun = 0
    /\ initialRegsEver = 0
    /\ Idle

\* a call other than refresh() ends a run of refresh() calls
NotRefresh ==
    /\ refreshRun' = 0
    /\ UNCHANGED <<initialRegsEver, codec>>

\* ------------------------------------------------------------- refresh
RefreshDialedRedials ==
    /\ rendezvous_node_connection = "Dialed"
    /\ Len(events) < MaxEvents
    /\ events' = Append(events,
           DialAddress(AddressWithP2p(rendezvous_point_addr, rendezvous_point_peer_id)))
    /\ sent' = "none"
    /\ UNCHANGED <<rendezvous_reregister_timestamp, rendezvous_node_connection,
                   is_initial_registration, initialRegs>>
RefreshDialedGivesUp ==
    /\ rendezvous_node_connection = "Dialed"
    /\ rendezvous_node_connection' = "Disconnected"
    /\ sent' = "none"
    /\ UNCHANGED <<rendezvous_reregister_timestamp, is_initial_registration, events,
                   initialRegs>>
RefreshDialed ==
    /\ rendezvous_node_connection = "Dialed"
    /\ sent' = "none"
    /\ UNCHANGED <<fields, initialRegs>>

RefreshConnectedKeepsFlag ==
    /\ rendezvous_node_connection = "Connected"
    /\ IF rendezvous_reregister_timestamp # None
       THEN /\ sent' = IF ReregisterDue(rendezvous_reregister_timestamp[1], now,
                                        is_initial_registration)
                       THEN "re-registration" ELSE "none"
            /\ UNCHANGED <<is_initial_registration, initialRegs>>
       ELSE IF is_initial_registration
       THEN /\ UNCHANGED is_initial_registration
            /\ sent' = "initial registration"
            /\ initialRegs' = IF initialRegs < 2 THEN initialRegs + 1 ELSE 2
       ELSE /\ sent' = "none"
            /\ UNCHANGED <<is_initial_registration, initialRegs>>
    /\ UNCHANGED <<rendezvous_reregister_timestamp, rendezvous_node_connection, events>>
RefreshConnected ==
    /\ rendezvous_node_connection = "Connected"
    /\ IF rendezvous_reregister_timestamp # None
       THEN /\ sent' = IF ReregisterDue(rendezvous_reregister_timestamp[1], now,
                                        is_initial_registration)
                       THEN "re-registration" ELSE "none"
            /\ UNCHANGED <<is_initial_registration, initialRegs>>
       ELSE IF is_initial_registration
       THEN /\ is_initial_registration' = FALSE
            /\ sent' = "initial registration"
            /\ initialRegs' = IF initialRegs < 2 THEN initialRegs + 1 ELSE 2
       ELSE /\ sent' = "none"
            /\ UNCHANGED <<is_initial_registration, initialRegs>>
    /\ UNCHANGED <<rendezvous_reregister_timestamp, rendezvous_node_connection, events>>

RefreshDisconnectedRegisters ==
    /\ rendezvous_node_connection = "Disconnected"
    /\ Len(events) < MaxEvents
    /\ events' = Append(events,
           DialAddress(AddressWithP2p(rendezvous_point_addr, rendezvous_point_peer_id)))
    /\ rendezvous_node_connection' = "Dialed"
    /\ sent' = "re-registration"
    /\ UNCHANGED <<rendezvous_reregister_timestamp, is_initial_registration, initialRegs>>
RefreshDisconnectedStays ==
    /\ rendezvous_node_connection = "Disconnected"
    /\ Len(events) < MaxEvents
    /\ events' = Append(events,
           DialAddress(AddressWithP2p(rendezvous_point_addr, rendezvous_point_peer_id)))
    /\ sent' = "none"
    /\ UNCHANGED <<rendezvous_reregister_timestamp, rendezvous_node_connection,
                   is_initial_registration, initialRegs>>
RefreshDisconnected ==
    /\ rendezvous_node_connection = "Disconnected"
    /\ Len(events) < MaxEvents
    /\ events' = Append(events,
           DialAddress(AddressWithP2p(rendezvous_point_addr, rendezvous_point_peer_id)))
    /\ rendezvous_node_connection' = "Dialed"
    /\ sent' = "none"
    /\ UNCHANGED <<rendezvous_reregister_timestamp, is_initial_registration, initialRegs>>

refresh ==
    /\ \/ RefreshDialed
       \/ RefreshConnected
       \/ RefreshDisconnected
    /\ lastOp' = Call("refresh")
    /\ refreshRun' = IF refreshRun < 2 THEN refreshRun + 1 ELSE 2
    /\ initialRegsEver' = IF sent' # "initial registration" THEN initialRegsEver
                           ELSE IF initialRegsEver < 2 THEN initialRegsEver + 1 ELSE 2
    /\ UNCHANGED <<config, now, polled, lastAck, everDisconnected, codec>>

\* ------------------------------------------------- NetworkBehaviour
inject_connectedAnyPeer(peer_id) ==
    /\ rendezvous_node_connection' = "Connected"
    /\ initialRegs' = IF rendezvous_node_connection = "Connected"
                      THEN initialRegs ELSE 0
    /\ sent' = "none"
    /\ lastOp' = Op("inject_connected", peer_id, "-", 0)
    /\ NotRefresh
    /\ UNCHANGED <<config, rendezvous_reregister_timestamp, is_initial_registration,
                   events, now, polled, lastAck, everDisconnected>>
inject_connected(peer_id) ==
    /\ IF peer_id = rendezvous_point_peer_id
       THEN /\ rendezvous_node_connection' = "Connected"
            /\ initialRegs' = IF rendezvous_node_connection = "Connected"
                              THEN initialRegs ELSE 0
       ELSE UNCHANGED <<rendezvous_node_connection, initialRegs>>
    /\ sent' = "none"
    /\ lastOp' = Op("inject_connected", peer_id, "-", 0)
    /\ NotRefresh
    /\ UNCHANGED <<config, rendezvous_reregister_timestamp, is_initial_registration,
                   events, now, polled, lastAck, everDisconnected>>

DisconnectedKeepsFlag(peer_id) ==
    IF peer_id = rendezvous_point_peer_id
    THEN /\ rendezvous_node_connection' = "Disconnected"
         /\ UNCHANGED is_initial_registration
         /\ everDisconnected' = TRUE
    ELSE UNCHANGED <<rendezvous_node_connection, is_initial_registration,
                     everDisconnected>>
DisconnectedResetsFlag(peer_id) ==
    IF peer_id = rendezvous_point_peer_id
    THEN /\ rendezvous_node_connection' = "Disconnected"
         /\ is_initial_registration' = TRUE
         /\ everDisconnected' = TRUE
    ELSE UNCHANGED <<rendezvous_node_connection, is_initial_registration,
                     everDisconnected>>
DisconnectedEffect(peer_id) ==
    IF peer_id = rendezvous_point_peer_id
    THEN /\ rendezvous_node_connection' = "Disconnected"
         /\ is_initial_registration' = FALSE
         /\ everDisconnected' = TRUE
    ELSE UNCHANGED <<rendezvous_node_connection, is_initial_registration,
                     everDisconnected>>

inject_disconnectedClearsTimestamp(peer_id) ==
    /\ DisconnectedEffect(peer_id)
    /\ rendezvous_reregister_timestamp' =
           IF peer_id = rendezvous_point_peer_id THEN None
           ELSE rendezvous_reregister_timestamp
    /\ sent' = "none"
    /\ lastOp' = Op("inject_disconnected", peer_id, "-", 0)
    /\ NotRefresh
    /\ UNCHANGED <<config, events, now, polled, lastAck, initialRegs>>
inject_disconnected(peer_id) ==
    /\ DisconnectedEffect(peer_id)
    /\ sent' = "none"
    /\ lastOp' = Op("inject_disconnected", peer_id, "-", 0)
    /\ NotRefresh
    /\ UNCHANGED <<config, rendezvous_reregister_timestamp, events, now, polled,
                   lastAck, initialRegs>>

\* Vec::pop takes the last element
pollKeeps ==
    /\ IF events # <<>>
       THEN polled' = Some(events[Len(events)])
       ELSE polled' = None
    /\ UNCHANGED events
    /\ sent' = "none"
    /\ lastOp' = Call("poll")
    /\ NotRefresh
    /\ UNCHANGED <<config, rendezvous_reregister_timestamp, rendezvous_node_connection,
                   is_initial_registration, now, history>>
poll ==
    /\ IF events # <<>>
       THEN /\ polled' = Some(events[Len(events)])
            /\ events' = SubSeq(events, 1, Len(events) - 1)
       ELSE /\ polled' = None
            /\ UNCHANGED events
    /\ sent' = "none"
    /\ lastOp' = Call("poll")
    /\ NotRefresh
    /\ UNCHANGED <<config, rendezvous_reregister_timestamp, rendezvous_node_connection,
                   is_initial_registration, now, history>>

\* ------------------------------- NetworkBehaviourEventProcess<Event>
inject_event_RegisterFailedRetries ==
    /\ is_initial_registration' = FALSE
    /\ sent' = IF rendezvous_node_connection = "Connected"
               THEN "re-registration" ELSE "none"
    /\ lastOp' = Call("RegisterFailed")
    /\ NotRefresh
    /\ UNCHANGED <<config, rendezvous_reregister_timestamp, rendezvous_node_connection,
                   events, now, polled, history>>
inject_event_RegisterFailed ==
    /\ is_initial_registration' = FALSE
    /\ sent' = "none"
    /\ lastOp' = Call("RegisterFailed")
    /\ NotRefresh
    /\ UNCHANGED <<config, rendezvous_reregister_timestamp, rendezvous_node_connection,
                   events, now, polled, history>>

\* the timestamp is kept below MaxTime so that the clock can pass it
inject_event_Registered(rendezvous_node, ttl, namespace) ==
    /\ ReregisterAt(now, ttl) < MaxTime
    /\ is_initial_registration' = FALSE
    /\ rendezvous_reregister_timestamp' = Some(ReregisterAt(now, ttl))
    /\ lastAck' = Some([at |-> now, ttl |-> ttl])
    /\ sent' = "none"
    /\ lastOp' = Op("Registered", rendezvous_node, namespace, ttl)
    /\ NotRefresh
    /\ UNCHANGED <<config, rendezvous_node_connection, events, now, polled,
                   everDisconnected, initialRegs>>

\* every other rendezvous event
inject_event_other ==
    /\ sent' = "none"
    /\ lastOp' = Call("other event")
    /\ NotRefresh
    /\ UNCHANGED <<config, fields, now, polled, history>>

\* ---------------------------------------------------------- the clock
Tick ==
    /\ now < MaxTime
    /\ now' = now + 1
    /\ sent' = "none"
    /\ lastOp' = Call("tick")
    /\ NotRefresh
    /\ UNCHANGED <<config, fields, polled, history>>

Next ==
    \/ refresh
    \/ \E p \in PeerIds : inject_connected(p)
    \/ \E p \in PeerIds : inject_disconnected(p)
    \/ poll
    \/ inject_event_RegisterFailed
    \/ \E p \in PeerIds, ttl \in 0..MaxTtl, ns \in Namespaces :
           inject_event_Registered(p, ttl, ns)
    \/ inject_event_other
    \/ Tick

Spec == Init /\ [][Next]_vars

\* refresh() is called on an interval and time passes
FairSpec == Spec /\ WF_vars(refresh) /\ WF_vars(Tick)

\* ---------------------------------------------------------------------
\* The wire codec (swap/src/network/swap_setup.rs)
\*
\* A u64 is the sequence of its eight bytes, most significant first.  A
\* value of a struct is a record of its fields; a value of an enum is a
\* record with the variant's name and, for a variant with data, its value.
\* ---------------------------------------------------------------------
BUF_SIZE == 1024 * 1024

Zeros(n) == [i \in 1..n |-> 0]
U64(b) == Zeros(8 - Len(b)) \o b
AllZero(b, n) == \A i \in 1..n : b[i] = 0

\* amounts around every width of the CBOR integer encoding, 0 and u64::MAX
Amounts ==
    {U64(<<0>>), U64(<<23>>), U64(<<24>>), U64(<<255>>), U64(<<1, 0>>),
     U64(<<255, 255>>), U64(<<1, 0, 0>>), U64(<<255, 255, 255, 255>>),
     U64(<<1, 0, 0, 0, 0>>), U64(<<255, 255, 255, 255, 255, 255, 255, 255>>)}

\* the names that appear on the wire, as UTF-8
Utf8 ==
  [btc |-> <<98, 116, 99>>,
   blockchain_network |-> <<98, 108, 111, 99, 107, 99, 104, 97, 105, 110, 95, 110, 101, 116, 119, 111, 114, 107>>,
   bitcoin |-> <<98, 105, 116, 99, 111, 105, 110>>,
   monero |-> <<109, 111, 110, 101, 114, 111>>,
   Xmr |-> <<88, 109, 114>>,
   Error |-> <<69, 114, 114, 111, 114>>,
   NoSwapsAccepted |-> <<78, 111, 83, 119, 97, 112, 115, 65, 99, 99, 101, 112, 116, 101, 100>>,
   AmountBelowMinimum |-> <<65, 109, 111, 117, 110, 116, 66, 101, 108, 111, 119, 77, 105, 110, 105, 109, 117, 109>>,
   min |-> <<109, 105, 110>>,
   buy |-> <<98, 117, 121>>,
   AmountAboveMaximum |-> <<65, 109, 111, 117, 110, 116, 65, 98, 111, 118, 101, 77, 97, 120, 105, 109, 117, 109>>,
   max |-> <<109, 97, 120>>,
   BalanceTooLow |-> <<66, 97, 108, 97, 110, 99, 101, 84, 111, 111, 76, 111, 119>>,
   BlockchainNetworkMismatch |-> <<66, 108, 111, 99, 107, 99, 104, 97, 105, 110, 78, 101, 116, 119, 111, 114, 107, 77, 105, 115, 109, 97, 116, 99, 104>>,
   cli |-> <<99, 108, 105>>,
   asb |-> <<97, 115, 98>>,
   Other |-> <<79, 116, 104, 101, 114>>,
   Mainnet |-> <<77, 97, 105, 110, 110, 101, 116>>,
   Testnet |-> <<84, 101, 115, 116, 110, 101, 116>>,
   Bogus |-> <<66, 111, 103, 117, 115>>]

\* ------------------------------------------------- the message types
Field(name, kind) == [name |-> name, kind |-> kind]
Variant(name, shape, kind) == [name |-> name, shape |-> shape, kind |-> kind]

\* the network of each ledger, as crate::bitcoin::network and
\* crate::monero::network put it on the wire
BitcoinNetworkDef ==
    <<Variant("Mainnet", "unit", "-"), Variant("Testnet", "unit", "-")>>
MoneroNetworkDef ==
    <<Variant("Mainnet", "unit", "-"), Variant("Testnet", "unit", "-")>>

BlockchainNetwork ==
    <<Field("bitcoin", "bitcoin::Network"), Field("monero", "monero::Network")>>
SpotPriceRequest ==
    <<Field("btc", "u64"), Field("blockchain_network", "BlockchainNetwork")>>
SpotPriceResponse ==
    <<Variant("Xmr", "newtype", "monero::Amount"),
      Variant("Error", "newtype", "SpotPriceError")>>
SpotPriceError ==
    <<Variant("NoSwapsAccepted", "unit", "-"),
      Variant("AmountBelowMinimum", "struct", "AmountBelowMinimum"),
      Variant("AmountAboveMaximum", "struct", "AmountAboveMaximum"),
      Variant("BalanceTooLow", "struct", "BalanceTooLow"),
      Variant("BlockchainNetworkMismatch", "struct", "BlockchainNetworkMismatch"),
      Variant("Other", "unit", "-")>>
AmountBelowMinimum == <<Field("min", "u64"), Field("buy", "u64")>>
AmountAboveMaximum == <<Field("max", "u64"), Field("buy", "u64")>>
BalanceTooLow == <<Field("buy", "u64")>>
BlockchainNetworkMismatch ==
    <<Field("cli", "BlockchainNetwork"), Field("asb", "BlockchainNetwork")>>

Structs == {"SpotPriceRequest", "BlockchainNetwork", "AmountBelowMinimum",
            "AmountAboveMaximum", "BalanceTooLow", "BlockchainNetworkMismatch"}
Fields(kind) ==
    CASE kind = "SpotPriceRequest" -> SpotPriceRequest
      [] kind = "BlockchainNetwork" -> BlockchainNetwork
      [] kind = "AmountBelowMinimum" -> AmountBelowMinimum
      [] kind = "AmountAboveMaximum" -> AmountAboveMaximum
      [] kind = "BalanceTooLow" -> BalanceTooLow
      [] kind = "BlockchainNetworkMismatch" -> BlockchainNetworkMismatch
Variants(kind) ==
    CASE kind = "SpotPriceResponse" -> SpotPriceResponse
      [] kind = "SpotPriceError" -> SpotPriceError
      [] kind = "bitcoin::Network" -> BitcoinNetworkDef
      [] kind = "monero::Network" -> MoneroNetworkDef

\* the values of each type
Unit(name) == [variant |-> name]
Data(name, value) == [variant |-> name, value |-> value]
BitcoinNetworks == {Unit(BitcoinNetworkDef[i].name) : i \in 1..Len(BitcoinNetworkDef)}
MoneroNetworks == {Unit(MoneroNetworkDef[i].name) : i \in 1..Len(MoneroNetworkDef)}
BlockchainNetworks == [bitcoin : BitcoinNetworks, monero : MoneroNetworks]
Requests == [btc : Amounts, blockchain_network : BlockchainNetworks]
Errors ==
    {Unit("NoSwapsAccepted"), Unit("Other")}
    \cup {Data("AmountBelowMinimum", v) : v \in [min : Amounts, buy : Amounts]}
    \cup {Data("AmountAboveMaximum", v) : v \in [max : Amounts, buy : Amounts]}
    \cup {Data("BalanceTooLow", v) : v \in [buy : Amounts]}
    \cup {Data("BlockchainNetworkMismatch", v) :
              v \in [cli : BlockchainNetworks, asb : BlockchainNetworks]}
Responses == {Data("Xmr", a) : a \in Amounts} \cup {Data("Error", e) : e \in Errors}
MessageTypes == {"SpotPriceRequest", "SpotPriceResponse"}
Values(T) == IF T = "SpotPriceRequest" THEN Requests ELSE Responses
Message(T, value) == [type |-> T, value |-> value]
Messages ==
    {Message("SpotPriceRequest", v) : v \in Requests}
    \cup {Message("SpotPriceResponse", v) : v \in Responses}

\* ---------------------------------------- serde_cbor::to_vec (CBOR)
\* the head of a data item: major type and a length below 256
EncHead(major, n) ==
    IF n < 24 THEN <<major * 32 + n>> ELSE <<major * 32 + 24, n>>
EncText(bytes) == EncHead(3, Len(bytes)) \o bytes

\* an unsigned integer in the shortest of the five widths
SerU64Narrow(v) ==
    IF AllZero(v, 7) /\ v[8] < 24 THEN <<v[8]>>
    ELSE IF AllZero(v, 7) THEN <<24, v[8]>>
    ELSE IF AllZero(v, 6) THEN <<25, v[7], v[8]>>
    ELSE <<26>> \o SubSeq(v, 5, 8)
SerU64(v) ==
    IF AllZero(v, 7) /\ v[8] < 24 THEN <<v[8]>>
    ELSE IF AllZero(v, 7) THEN <<24, v[8]>>
    ELSE IF AllZero(v, 6) THEN <<25, v[7], v[8]>>
    ELSE IF AllZero(v, 4) THEN <<26>> \o SubSeq(v, 5, 8)
    ELSE <<27>> \o v

\* bitcoin::util::amount::serde::as_sat and monero::Amount
SerAsSat(amount) == SerU64(amount)
SerMoneroAmount(amount) == SerU64(amount)

VariantOf(kind, name) ==
    LET vs == Variants(kind)
    IN  vs[CHOOSE i \in 1..Len(vs) : vs[i].name = name]

RECURSIVE Ser(_, _)
RECURSIVE SerFields(_, _, _)
Ser(kind, v) ==
    IF kind = "u64" THEN SerAsSat(v)
    ELSE IF kind = "monero::Amount" THEN SerMoneroAmount(v)
    ELSE IF kind \in Structs
    THEN EncHead(5, Len(Fields(kind))) \o SerFields(kind, v, 1)
    ELSE LET variant == VariantOf(kind, v.variant)
         IN  IF variant.shape = "unit"
             THEN EncText(Utf8[variant.name])
             ELSE EncHead(5, 1) \o EncText(Utf8[variant.name])
                      \o Ser(variant.kind, v.value)
SerFields(kind, v, i) ==
    IF i > Len(Fields(kind)) THEN <<>>
    ELSE LET f == Fields(kind)[i]
         IN  EncText(Utf8[f.name]) \o Ser(f.kind, v[f.name])
                 \o SerFields(kind, v, i + 1)

\* ------------------------------ serde_cbor::Deserializer, T::deserialize
\* Results are Ok(value, rest of the input) or Err(error).  Data items that
\* no frame of this model contains (arrays, byte strings, tags, simple
\* values, indefinite lengths, integer keys and variant indices) give
\* Err("unmodelled").
Ok(value, rest) == [ok |-> TRUE, value |-> value, rest |-> rest]
Err(error) == [ok |-> FALSE, error |-> error]

\* the head of the next data item: its major type and its argument as a u64
ReadHead(b) ==
    IF b = <<>> THEN Err("EofWhileParsingValue")
    ELSE LET major == b[1] \div 32
             info == b[1] % 32
             width == CASE info = 24 -> 1 [] info = 25 -> 2
                        [] info = 26 -> 4 [] info = 27 -> 8 [] OTHER -> 0
         IN  IF info < 24
             THEN [ok |-> TRUE, major |-> major, arg |-> U64(<<info>>), rest |-> Tail(b)]
             ELSE IF info = 31 THEN Err("unmodelled")
             ELSE IF info > 27 THEN Err("UnassignedCode")
             ELSE IF Len(b) < 1 + width THEN Err("EofWhileParsingValue")
             ELSE [ok |-> TRUE, major |-> major,
                   arg |-> U64(SubSeq(b, 2, 1 + width)),
                   rest |-> SubSeq(b, 2 + width, Len(b))]

\* a length; one of 65536 or more is longer than any input of this model
LenOf(arg) == IF AllZero(arg, 6) THEN 256 * arg[7] + arg[8] ELSE 65536

\* u64::deserialize
DeU64(b) ==
    LET h == ReadHead(b)
    IN  IF ~h.ok THEN h
        ELSE IF h.major = 0 THEN Ok(h.arg, h.rest)
        ELSE IF h.major \in {1, 3, 5} THEN Err("invalid type")
        ELSE Err("unmodelled")
DeAsSat(b) == DeU64(b)
DeMoneroAmount(b) == DeU64(b)

\* a text string
DeText(b) ==
    LET h == ReadHead(b)
    IN  IF ~h.ok THEN h
        ELSE IF h.major = 3
        THEN IF Len(h.rest) < LenOf(h.arg) THEN Err("EofWhileParsingValue")
             ELSE Ok(SubSeq(h.rest, 1, LenOf(h.arg)),
                     SubSeq(h.rest, LenOf(h.arg) + 1, Len(h.rest)))
        ELSE IF h.major \in {1, 5} THEN Err("invalid type")
        ELSE Err("unmodelled")

\* serde::de::IgnoredAny, for the value of an unknown field
RECURSIVE Skip(_, _)
Skip(b, items) ==
    IF items = 0 THEN Ok(<<>>, b)
    ELSE LET h == ReadHead(b)
         IN  IF ~h.ok THEN h
             ELSE IF h.major \in {0, 1} THEN Skip(h.rest, items - 1)
             ELSE IF h.major = 3
             THEN IF Len(h.rest) < LenOf(h.arg) THEN Err("EofWhileParsingValue")
                  ELSE Skip(SubSeq(h.rest, LenOf(h.arg) + 1, Len(h.rest)), items - 1)
             ELSE IF h.major = 5
             THEN IF 2 * LenOf(h.arg) > Len(h.rest) THEN Err("EofWhileParsingValue")
                  ELSE Skip(h.rest, items - 1 + 2 * LenOf(h.arg))
             ELSE Err("unmodelled")

IndexOf(defs, bytes) ==
    IF \E i \in 1..Len(defs) : Utf8[defs[i].name] = bytes
    THEN CHOOSE i \in 1..Len(defs) : Utf8[defs[i].name] = bytes
    ELSE 0

RECURSIVE De(_, _)
RECURSIVE DeFields(_, _, _, _)
\* the visitor of a derived struct, over a map
DeStruct(kind, b) ==
    LET h == ReadHead(b)
    IN  IF ~h.ok THEN h
        ELSE IF h.major = 5
        THEN DeFields(kind, h.rest, LenOf(h.arg), [i \in 1..Len(Fields(kind)) |-> None])
        ELSE IF h.major \in {0, 1, 3} THEN Err("invalid type")
        ELSE Err("unmodelled")
DeFields(kind, b, entries, got) ==
    IF entries = 0
    THEN IF \E i \in 1..Len(got) : got[i] = None THEN Err("missing field")
         ELSE Ok([name \in {Fields(kind)[i].name : i \in 1..Len(got)} |->
                     got[CHOOSE i \in 1..Len(got) : Fields(kind)[i].name = name][1]], b)
    ELSE LET key == DeText(b)
         IN  IF ~key.ok THEN key
             ELSE LET i == IndexOf(Fields(kind), key.value)
                  IN  IF i = 0
                      THEN LET ignored == Skip(key.rest, 1)
                           IN  IF ~ignored.ok THEN ignored
                               ELSE DeFields(kind, ignored.rest, entries - 1, got)
                      ELSE IF got[i] # None THEN Err("duplicate field")
                      ELSE LET field == De(Fields(kind)[i].kind, key.rest)
                           IN  IF ~field.ok THEN field
                               ELSE DeFields(kind, field.rest, entries - 1,
                                             [got EXCEPT ![i] = Some(field.value)])
\* deserialize_enum: a text string names a unit variant, a map of one entry
\* holds a variant with data
DeEnum(kind, b) ==
    LET h == ReadHead(b)
    IN  IF ~h.ok THEN h
        ELSE IF h.major = 3
        THEN LET name == DeText(b)
             IN  IF ~name.ok THEN name
                 ELSE LET i == IndexOf(Variants(kind), name.value)
                      IN  IF i = 0 THEN Err("unknown variant")
                          ELSE IF Variants(kind)[i].shape # "unit" THEN Err("invalid type")
                          ELSE Ok(Unit(Variants(kind)[i].name), name.rest)
        ELSE IF h.major = 5 /\ LenOf(h.arg) = 1
        THEN LET name == DeText(h.rest)
             IN  IF ~name.ok THEN name
                 ELSE LET i == IndexOf(Variants(kind), name.value)
                      IN  IF i = 0 THEN Err("unknown variant")
                          ELSE IF Variants(kind)[i].shape = "unit" THEN Err("unmodelled")
                          ELSE LET data == De(Variants(kind)[i].kind, name.rest)
                               IN  IF ~data.ok THEN data
                                   ELSE Ok(Data(Variants(kind)[i].name, data.value),
                                           data.rest)
        ELSE IF h.major \in {1, 5} THEN Err("invalid type")
        ELSE Err("unmodelled")
De(kind, b) ==
    IF kind = "u64" THEN DeAsSat(b)
    ELSE IF kind = "monero::Amount" THEN DeMoneroAmount(b)
    ELSE IF kind \in Structs THEN DeStruct(kind, b)
    ELSE DeEnum(kind, b)

\* --------------------------------------------- frames on the substream
\* A frame is its length prefix, the first bytes that follow it and the
\* number of further bytes that follow those.  A frame with further bytes
\* begins with a whole message, so that deserialization never reads them.
Frame(len, bytes, more) == [len |-> len, bytes |-> bytes, more |-> more]
\* upgrade::write_one
WriteOne(bytes) == Frame(Len(bytes), bytes, 0)

Mainnets == [bitcoin |-> Unit("Mainnet"), monero |-> Unit("Mainnet")]
Request23 ==
    Ser("SpotPriceRequest", [btc |-> U64(<<23>>), blockchain_network |-> Mainnets])
NetworkBytes == Ser("BlockchainNetwork", Mainnets)
ResponseHead == EncHead(5, 1) \o EncText(Utf8["Xmr"])
\* what a peer that does not use write_cbor_message can put on the substream
PeerFrames ==
    {   \* a length prefix above the limit, then a whole message
        Frame(BUF_SIZE + 1, Request23, BUF_SIZE + 1 - Len(Request23)),
        \* a frame of exactly the limit that begins with a whole message
        Frame(BUF_SIZE, Request23, BUF_SIZE - Len(Request23)),
        \* a whole message and three more bytes
        Frame(Len(Request23) + 3, Request23 \o <<255, 255, 255>>, 0),
        \* a message cut off before its end
        Frame(Len(Request23) - 1, SubSeq(Request23, 1, Len(Request23) - 1), 0),
        Frame(5, SubSeq(Request23, 1, 5), 0),
        \* a stream that ends before the frame does
        Frame(Len(Request23), SubSeq(Request23, 1, 5), 0),
        \* an empty frame
        Frame(0, <<>>, 0),
        \* an amount in two bytes where one is enough
        WriteOne(EncHead(5, 2) \o EncText(Utf8["btc"]) \o <<24, 23>>
                 \o EncText(Utf8["blockchain_network"]) \o NetworkBytes),
        \* a negative amount
        WriteOne(EncHead(5, 2) \o EncText(Utf8["btc"]) \o <<32>>
                 \o EncText(Utf8["blockchain_network"]) \o NetworkBytes),
        WriteOne(ResponseHead \o <<32>>),
        \* a text string where the amount belongs
        WriteOne(ResponseHead \o EncText(Utf8["Bogus"])),
        \* the fields in the other order
        WriteOne(EncHead(5, 2) \o EncText(Utf8["blockchain_network"]) \o NetworkBytes
                 \o EncText(Utf8["btc"]) \o <<23>>),
        \* a field more than the struct has
        WriteOne(EncHead(5, 3) \o EncText(Utf8["btc"]) \o <<23>>
                 \o EncText(Utf8["Bogus"]) \o NetworkBytes
                 \o EncText(Utf8["blockchain_network"]) \o NetworkBytes),
        \* a field twice, a field missing
        WriteOne(EncHead(5, 2) \o EncText(Utf8["btc"]) \o <<23>>
                 \o EncText(Utf8["btc"]) \o <<23>>),
        WriteOne(EncHead(5, 1) \o EncText(Utf8["btc"]) \o <<23>>),
        \* a variant that does not exist, as a unit and with data
        WriteOne(EncText(Utf8["Bogus"])),
        WriteOne(EncHead(5, 1) \o EncText(Utf8["Bogus"]) \o <<23>>),
        WriteOne(EncHead(5, 1) \o EncText(Utf8["Error"]) \o EncText(Utf8["Bogus"])),
        \* a variant with data, without its data
        WriteOne(EncText(Utf8["Xmr"])),
        WriteOne(EncHead(5, 1) \o EncText(Utf8["Error"])
                 \o EncText(Utf8["BalanceTooLow"])),
        \* an enum as a map of no entry and of two entries
        WriteOne(EncHead(5, 0)),
        WriteOne(EncHead(5, 2) \o EncText(Utf8["Xmr"]) \o <<23>>
                 \o EncText(Utf8["Xmr"]) \o <<23>>),
        \* a reserved additional-information value
        WriteOne(<<28>>)
    }

\* upgrade::read_one without its limit
ReadOneUnbounded(f, max_size) ==
    IF f.len > Len(f.bytes) + f.more THEN Err("UnexpectedEof")
    ELSE Ok(f.bytes, <<>>)
\* upgrade::read_one: the bytes of the frame, or an error
ReadOne(f, max_size) ==
    IF f.len > max_size THEN Err("TooLarge")
    ELSE IF f.len > Len(f.bytes) + f.more THEN Err("UnexpectedEof")
    ELSE Ok(f.bytes, <<>>)

\* what the caller gets: the message, without the rest of the input
Returned(result) ==
    IF result.ok THEN [ok |-> TRUE, value |-> result.value] ELSE result

\* protocol::new: a fresh substream for the next exchange
new ==
    /\ received # None
    /\ message' = None
    /\ substream' = <<>>
    /\ frame' = None
    /\ expecting' = None
    /\ deserialized' = FALSE
    /\ received' = None
    /\ UNCHANGED rendezvous

write_cbor_message(T, value) ==
    /\ substream = <<>>
    /\ received = None
    /\ message' = Some(Message(T, value))
    /\ substream' = <<WriteOne(Ser(T, value))>>
    /\ UNCHANGED <<frame, expecting, deserialized, received, rendezvous>>

\* the remote peer writes a frame of its own making
peer_writes(f) ==
    /\ substream = <<>>
    /\ received = None
    /\ message' = None
    /\ substream' = <<f>>
    /\ UNCHANGED <<frame, expecting, deserialized, received, rendezvous>>

read_cbor_message(T) ==
    /\ substream # <<>>
    /\ LET bytes == ReadOne(Head(substream), BUF_SIZE)
       IN  /\ deserialized' = bytes.ok
           /\ received' = Some(IF bytes.ok THEN Returned(De(T, bytes.value))
                               ELSE bytes)
    /\ frame' = Some(Head(substream))
    /\ substream' = Tail(substream)
    /\ expecting' = Some(T)
    /\ UNCHANGED <<message, rendezvous>>

CodecInit ==
    /\ Init
    /\ rendezvous_point_peer_id = "peerA"
    /\ rendezvous_point_addr = BaseAddr
    /\ rendezvous_namespace = "xmr-btc-swap-mainnet"

CodecNext ==
    \/ \E T \in MessageTypes : \E value \in Values(T) : write_cbor_message(T, value)
    \/ \E f \in PeerFrames : peer_writes(f)
    \/ \E T \in MessageTypes : read_cbor_message(T)
    \/ new

CodecSpec == CodecInit /\ [][CodecNext]_vars

\* ---------------------------------------------------------------------
\* Properties
\* ---------------------------------------------------------------------
IsRefresh(op) == op.op = "refresh"
IsRendezvousPeerEvent(op, name) == op.op = name /\ op.peer = rendezvous_point_peer_id
TimerPassed ==
    /\ rendezvous_reregister_timestamp # None
    /\ now > rendezvous_reregister_timestamp[1]

\* C1: a registration is sent only by a refresh() call that runs while the
\* connection state is Connected, never while it is Disconnected or Dialed.
C1_RegisterOnlyWhenConnected ==
    sent # "none" =>
        /\ IsRefresh(lastOp)
        /\ rendezvous_node_connection = "Connected"
C1_Witness ==
    /\ sent = "initial registration"
    /\ rendezvous_node_connection = "Connected"

\* C2: while the state is Dialed, refresh() enqueues no dial, sends no
\* registration and changes no field, and the state leaves Dialed only by a
\* connected or disconnected event for the rendezvous peer.
C2_DialedWaits ==
    [][rendezvous_node_connection = "Dialed" =>
        /\ IsRefresh(lastOp') => (sent' = "none" /\ UNCHANGED fields)
        /\ rendezvous_node_connection' # "Dialed" =>
              \/ IsRendezvousPeerEvent(lastOp', "inject_connected")
              \/ IsRendezvousPeerEvent(lastOp', "inject_disconnected")]_vars
\* refresh() ran in Dialed: the dial it had queued was already polled
C2_Witness ==
    /\ rendezvous_node_connection = "Dialed"
    /\ IsRefresh(lastOp)
    /\ events = <<>>

\* C3: if the rendezvous peer is connected and stays connected, while refresh()
\* keeps being called and time advances, a registration is eventually sent.
C3_KeepsRegistered ==
    []([](rendezvous_node_connection = "Connected") => <>(sent # "none"))

\* C4: a disconnected event for the rendezvous peer puts the state in
\* Disconnected, and a refresh() in Disconnected enqueues exactly one dial
\* action and moves the state to Dialed, after every disconnect.
C4_DisconnectThenRedial ==
    [][/\ IsRendezvousPeerEvent(lastOp', "inject_disconnected") =>
              rendezvous_node_connection' = "Disconnected"
       /\ (rendezvous_node_connection = "Disconnected" /\ IsRefresh(lastOp')) =>
              /\ Len(events') = Len(events) + 1
              /\ SubSeq(events', 1, Len(events)) = events
              /\ events'[Len(events')].action = "DialAddress"
              /\ rendezvous_node_connection' = "Dialed"]_vars
\* a second dial, queued by the refresh() after a disconnect
C4_Witness ==
    /\ everDisconnected
    /\ rendezvous_node_connection = "Dialed"
    /\ IsRefresh(lastOp)
    /\ Len(events) = 2

\* C5 as written: every Connected period in which refresh() ran has had
\* exactly one initial registration.
C5_ExactlyOnePerPeriod ==
    (rendezvous_node_connection = "Connected" /\ IsRefresh(lastOp)) =>
        initialRegs = 1
\* C5 (amended): refresh() in Connected with is_initial_registration set sends
\* one registration and clears the flag, and a Connected period has at most
\* one initial registration.
C5_AtMostOnePerPeriod ==
    [][/\ (/\ rendezvous_node_connection = "Connected"
           /\ is_initial_registration
           /\ IsRefresh(lastOp')) =>
              /\ sent' = "initial registration"
              /\ ~is_initial_registration'
              /\ initialRegs' = 1
       /\ initialRegs' <= 1]_vars
\* a later Connected period, refreshed, without an initial registration
C5_Witness ==
    /\ rendezvous_node_connection = "Connected"
    /\ IsRefresh(lastOp)
    /\ everDisconnected
    /\ initialRegs = 0

\* C6: in Connected with is_initial_registration false, refresh() sends a
\* registration iff the timestamp is set and the time is strictly later than
\* it, and changes no state either way.
C6_TimerPath ==
    [][(/\ rendezvous_node_connection = "Connected"
        /\ ~is_initial_registration
        /\ IsRefresh(lastOp')) =>
           /\ (sent' # "none") <=> TimerPassed
           /\ UNCHANGED fields]_vars
C6_Witness ==
    /\ sent = "re-registration"
    /\ now = rendezvous_reregister_timestamp[1] + 1

\* C7: after a Registered event with lease L delivered at time t the
\* timestamp is t + L/2, not t + L.
C7_HalfLease ==
    lastOp.op = "Registered" =>
        /\ rendezvous_reregister_timestamp # None
        /\ 2 * (rendezvous_reregister_timestamp[1] - now) = from_secs(lastOp.ttl)
\* an odd lease, overwriting an earlier timestamp
C7_Witness ==
    /\ lastOp.op = "Registered"
    /\ lastOp.ttl = 1
    /\ now > 0
    /\ lastAck # None /\ lastAck[1].at = now

\* C8 as written: a re-registration is sent no later than t + L/2, where the
\* last acknowledgement arrived at t with lease L.
C8_NoLaterThanHalfLease ==
    (sent = "re-registration" /\ lastAck # None) =>
        2 * (now - lastAck[1].at) <= from_secs(lastAck[1].ttl)
\* C8 (amended): a re-registration is sent strictly later than t + L/2.
C8_AfterHalfLease ==
    sent = "re-registration" =>
        /\ lastAck # None
        /\ 2 * (now - lastAck[1].at) > from_secs(lastAck[1].ttl)
C8_Witness ==
    /\ sent = "re-registration"
    /\ lastAck # None
    /\ lastAck[1].ttl = 2
    /\ now = lastAck[1].at + 3

\* C9: after a disconnected event for the rendezvous peer the flag is false,
\* and every later registration is a re-registration sent with the timestamp
\* set and passed.
C9_NoInitialAfterDisconnect ==
    everDisconnected =>
        /\ ~is_initial_registration
        /\ sent # "initial registration"
        /\ sent # "none" => TimerPassed
C9_Witness ==
    /\ everDisconnected
    /\ rendezvous_node_connection = "Connected"
    /\ sent = "re-registration"

\* C10: a Registered event from another peer or for another namespace only
\* clears is_initial_registration: timestamp, connection state and queue keep
\* their values and nothing is sent.
C10_MismatchIgnored ==
    [][(/\ lastOp'.op = "Registered"
        /\ \/ lastOp'.peer # rendezvous_point_peer_id
           \/ lastOp'.ns # rendezvous_namespace) =>
           /\ ~is_initial_registration'
           /\ sent' = "none"
           /\ UNCHANGED <<rendezvous_reregister_timestamp,
                          rendezvous_node_connection, events>>]_vars

\* C11: a second refresh() right after a first one changes no field and
\* emits no dial action and no registration.
C11_RefreshIdempotent ==
    [][(IsRefresh(lastOp) /\ IsRefresh(lastOp')) =>
           /\ UNCHANGED fields
           /\ sent' = "none"]_vars

\* C12 as written: the connection state changes only from Disconnected to
\* Dialed by refresh(), from Dialed to Connected by a connected event and from
\* Connected to Disconnected by a disconnected event, both for the rendezvous
\* peer.
C12_ThreeTransitions ==
    [][rendezvous_node_connection' # rendezvous_node_connection =>
        \/ /\ rendezvous_node_connection = "Disconnected"
           /\ rendezvous_node_connection' = "Dialed"
           /\ IsRefresh(lastOp')
        \/ /\ rendezvous_node_connection = "Dialed"
           /\ rendezvous_node_connection' = "Connected"
           /\ IsRendezvousPeerEvent(lastOp', "inject_connected")
        \/ /\ rendezvous_node_connection = "Connected"
           /\ rendezvous_node_connection' = "Disconnected"
           /\ IsRendezvousPeerEvent(lastOp', "inject_disconnected")]_vars
\* C12 (amended): the state starts in Disconnected; Dialed is entered only
\* from Disconnected by refresh(), Connected only by a connected event and
\* Disconnected only by a disconnected event for the rendezvous peer, each
\* from either of the other two states.
C12_Transitions ==
    /\ rendezvous_node_connection = "Disconnected"
    /\ [][rendezvous_node_connection' # rendezvous_node_connection =>
           \/ /\ rendezvous_node_connection = "Disconnected"
              /\ rendezvous_node_connection' = "Dialed"
              /\ IsRefresh(lastOp')
           \/ /\ rendezvous_node_connection' = "Connected"
              /\ IsRendezvousPeerEvent(lastOp', "inject_connected")
           \/ /\ rendezvous_node_connection' = "Disconnected"
              /\ IsRendezvousPeerEvent(lastOp', "inject_disconnected")]_vars
\* Connected entered from Disconnected: no refresh() has run, nothing was dialed
C12_Witness ==
    /\ rendezvous_node_connection = "Connected"
    /\ IsRendezvousPeerEvent(lastOp, "inject_connected")
    /\ events = <<>>
    /\ polled = None
    /\ ~everDisconnected

\* C13: every dial action carries the configured address, with the suffix of
\* the rendezvous peer appended iff the address did not end with it; that
\* address ends with the suffix and normalizing it again returns it unchanged;
\* the configured address never changes.
Normalized(address) ==
    /\ EndsWith(address, P2p(rendezvous_point_peer_id))
    /\ IF EndsWith(rendezvous_point_addr, P2p(rendezvous_point_peer_id))
       THEN address = rendezvous_point_addr
       ELSE address = rendezvous_point_addr \o P2p(rendezvous_point_peer_id)
    /\ AddressWithP2p(address, rendezvous_point_peer_id) = address
C13_NormalizedDial ==
    [][/\ \A i \in 1..Len(events') : Normalized(events'[i].address)
       /\ UNCHANGED rendezvous_point_addr]_vars
\* a dial of an address that carried another peer's suffix
C13_Witness ==
    /\ events # <<>>
    /\ EndsWith(rendezvous_point_addr, P2p("peerA"))
    /\ rendezvous_point_peer_id = "peerB"
    /\ events[1].address = rendezvous_point_addr \o P2p("peerB")

\* C16: a RegisterFailed event clears is_initial_registration, sends nothing,
\* queues nothing and keeps connection state and timestamp; any registration
\* is sent by a refresh() call.
C16_RegisterFailedOnlyClearsFlag ==
    [][/\ lastOp'.op = "RegisterFailed" =>
              /\ ~is_initial_registration'
              /\ sent' = "none"
              /\ UNCHANGED <<rendezvous_reregister_timestamp,
                             rendezvous_node_connection, events>>
       /\ sent' # "none" => IsRefresh(lastOp')]_vars
C16_Witness ==
    /\ lastOp.op = "RegisterFailed"
    /\ rendezvous_node_connection = "Connected"
    /\ TimerPassed

\* C17 as written: when refresh() sends a registration the queue holds no
\* dial action.
C17_NoDialPending ==
    sent # "none" => events = <<>>
\* C17 (amended): a registration is sent only in Connected, possibly with a
\* dial action still queued; poll() returns the last queued action and removes
\* it, or returns nothing from an empty queue.
C17_GatedAndPolledOnce ==
    [][/\ sent' # "none" => rendezvous_node_connection = "Connected"
       /\ lastOp'.op = "poll" =>
              IF events = <<>>
              THEN polled' = None /\ events' = <<>>
              ELSE /\ polled' = Some(events[Len(events)])
                   /\ events' = SubSeq(events, 1, Len(events) - 1)]_vars
\* a registration sent with a dial action still queued
C17_Witness ==
    /\ sent # "none"
    /\ events # <<>>

\* C18: connected and disconnected events for another peer than the
\* rendezvous peer change no field.
C18_OtherPeerIgnored ==
    [][(/\ lastOp'.op \in {"inject_connected", "inject_disconnected"}
        /\ lastOp'.peer # rendezvous_point_peer_id) =>
           UNCHANGED fields]_vars
C18_Witness ==
    /\ lastOp.op = "inject_connected"
    /\ lastOp.peer # rendezvous_point_peer_id
    /\ rendezvous_node_connection = "Dialed"
    /\ is_initial_registration

\* C19: the timestamp is unset initially, changes only by a Registered event
\* and, once set, is never unset.
C19_TimestampOnlyByRegistered ==
    /\ rendezvous_reregister_timestamp = None
    /\ [][/\ rendezvous_reregister_timestamp' # rendezvous_reregister_timestamp =>
                 lastOp'.op = "Registered"
          /\ rendezvous_reregister_timestamp # None =>
                 rendezvous_reregister_timestamp' # None]_vars
\* the timestamp set before a disconnect decides after the reconnect
C19_Witness ==
    /\ sent = "re-registration"
    /\ everDisconnected
    /\ lastAck # None
    /\ lastAck[1].at = 0
    /\ rendezvous_reregister_timestamp = Some(ReregisterAt(0, lastAck[1].ttl))

\* C20: is_initial_registration is true only while the timestamp is unset and
\* never goes from false to true; at most one initial registration is sent.
C20_OneInitialRegistrationEver ==
    [][/\ is_initial_registration' => rendezvous_reregister_timestamp' = None
       /\ is_initial_registration' => is_initial_registration
       /\ initialRegsEver' <= 1]_vars
C20_Witness ==
    /\ initialRegsEver = 1
    /\ everDisconnected
    /\ rendezvous_node_connection = "Connected"
    /\ IsRefresh(lastOp)
    /\ rendezvous_reregister_timestamp = None

\* C14: a message written with write_cbor_message and read from that frame
\* with read_cbor_message of its own type comes back equal to the message
\* written, whatever the message: every decline reason, amount 0 and the
\* largest amount included.
C14_RoundTrip ==
    (message # None /\ received # None /\ expecting = Some(message[1].type))
        => received[1] = [ok |-> TRUE, value |-> message[1].value]
\* a request for u64::MAX has made the round trip
C14_Witness ==
    /\ message # None
    /\ received # None
    /\ expecting = Some(message[1].type)
    /\ message[1].type = "SpotPriceRequest"
    /\ message[1].value.btc = U64(<<255, 255, 255, 255, 255, 255, 255, 255>>)

\* C15: a frame whose length prefix is above BUF_SIZE makes read_cbor_message
\* fail before it deserializes anything; a frame within the limit whose bytes
\* do not deserialize into the expected type makes it fail as well; and what
\* it returns otherwise is a whole value of the expected type.
C15_ReadFails ==
    received # None =>
        /\ frame[1].len > BUF_SIZE => ~received[1].ok /\ ~deserialized
        /\ (frame[1].len <= BUF_SIZE /\ ~De(expecting[1], frame[1].bytes).ok)
               => ~received[1].ok
        /\ received[1].ok => received[1].value \in Values(expecting[1])
\* a frame one byte above the limit was read
C15_Witness ==
    /\ received # None
    /\ frame[1].len = BUF_SIZE + 1

====
